---- MODULE Spec2Model ----
(***************************************************************************)
(* The buffer manager of src/src/buffer.cpp (BufMgr): a pool of numBufs    *)
(* frames, a descriptor per frame, a hash table from (file, pageNo) to the *)
(* frame, and the clock hand of the replacement policy.  The files (the    *)
(* storage backend), the descriptor's Set/Clear and the hash table are     *)
(* collaborators declared outside buffer.cpp; they are modelled from their *)
(* documented contract.                                                    *)
(***************************************************************************)
EXTENDS Integers, Sequences, FiniteSets, TLC

\* ------------------------------------------------------------------ bounds
MaxBufs == 2        \* the pool is built with 1..MaxBufs frames
NumFiles == 2       \* files 1..NumFiles
MaxPage == 2        \* page numbers 1..MaxPage in each file
MaxPin == 2         \* a page is pinned at most MaxPin times at once
MaxData == 1        \* a page's content is a value in 0..MaxData
ClockBufs == 3      \* SpecClock: the pool has ClockBufs frames
ClockPages == 5     \* SpecClock: file 1 holds pages 1..ClockPages-1; page ClockPages
                    \* is a number the file does not hold

\* --------------------------------------------------------------- constants
INVALID_NUMBER == 0     \* Page::INVALID_NUMBER: no real page has this number
NULL == 0               \* the null File pointer
NoFrame == -1           \* lookup: the pair is not in the hash table

Files == 1..NumFiles
PageNos == 1..MaxPage
ClockPageNos == 1..ClockPages
Keys == Files \X (PageNos \cup ClockPageNos)
Data == 0..MaxData

VARIABLES
    numBufs,        \* BufMgr::numBufs
    bufDescTable,   \* BufMgr::bufDescTable, frame -> BufDesc
    bufPool,        \* BufMgr::bufPool, frame -> Page (its number and its content)
    hashTable,      \* BufMgr::hashTable: its entries, (file, pageNo) -> frame
    clockHand,      \* BufMgr::clockHand
    disk,           \* the files: the pages they hold, (file, pageNo) -> content
    alive,          \* FALSE once the destructor has run
    ret,            \* the last call: its name, what it returned or threw and, when
                    \* it found, loaded or dropped pages, its arguments
    writes,         \* the writePage calls the last call made, in order
    scen,           \* history: progress of the "exhausted, release one page,
                    \* fetch again" scenario (kept by SpecClock)
    written         \* history: (file, pageNo) -> the content last written back
                    \* for the page since the file holds it (kept by SpecData)

vars == <<numBufs, bufDescTable, bufPool, hashTable, clockHand, disk, alive, ret,
          writes, scen, written>>

Frames == 0..(numBufs - 1)

\* Every frame of the descriptor table d holds a pinned page.
AllPinned(d) == \A i \in Frames : d[i].valid /\ d[i].pinCnt > 0

\* ------------------------------------------------------- the frame descriptor
\* BufDesc::Clear(): the descriptor of a Free frame.
Clear ==
    [valid |-> FALSE, file |-> NULL, pageNo |-> INVALID_NUMBER,
     pinCnt |-> 0, dirty |-> FALSE, refbit |-> FALSE]

\* BufDesc::Set(file, pageNo): the descriptor of a page just loaded.
Set(file, pageNo) ==
    [valid |-> TRUE, file |-> file, pageNo |-> pageNo,
     pinCnt |-> 1, dirty |-> FALSE, refbit |-> TRUE]

\* ------------------------------------------------------------- the backend
\* A Page object: the number it carries and its bytes.
NewPage(pageNo, data) == [no |-> pageNo, data |-> data]

\* File::writePage(page): the page carries its own number.
writePage(dk, file, page) ==
    IF <<file, page.no>> \in DOMAIN dk
    THEN [dk EXCEPT ![<<file, page.no>>] = page.data]
    ELSE dk

\* File::readPage(pageNo) and File::deletePage(pageNo) fail on a page the file
\* does not hold.
HasPage(dk, file, pageNo) == <<file, pageNo>> \in DOMAIN dk

\* File::readPage(pageNo): the page as the file holds it.
readDisk(dk, file, pageNo) == NewPage(pageNo, dk[<<file, pageNo>>])

\* The function f with key k set to v, and f without key k.
With(f, k, v) == [x \in DOMAIN f \cup {k} |-> IF x = k THEN v ELSE f[x]]
Without(f, k) == [x \in DOMAIN f \ {k} |-> f[x]]
Empty == [x \in {} |-> 0]

\* ------------------------------------------------------------- the hash table
lookup(ht, file, pageNo) ==
    IF <<file, pageNo>> \in DOMAIN ht THEN ht[<<file, pageNo>>] ELSE NoFrame

insert(ht, file, pageNo, frameNo) == With(ht, <<file, pageNo>>, frameNo)

remove(ht, file, pageNo) == Without(ht, <<file, pageNo>>)

\* ------------------------------------------------------------------- results
\* The victim of a sweep as it was when the sweep selected it: its pin count and
\* refbit then, its refbit when the sweep began (firstRef) and whether the
\* sweep had cleared its refbit on an earlier visit (cleared).
NoVictim == [pinCnt |-> 0, refbit |-> FALSE, firstRef |-> FALSE, cleared |-> FALSE]

NoRet ==
    [op |-> "none", file |-> NULL, pageNo |-> INVALID_NUMBER, dirty |-> FALSE,
     outcome |-> "ok", hit |-> FALSE, frame |-> NoFrame,
     evicted |-> FALSE, victim |-> NoVictim]

NoKey == <<NULL, INVALID_NUMBER>>

NoScen == [phase |-> 0, d |-> NoKey, a |-> NoKey, aFrame |-> NoFrame]

\* ------------------------------------------------------------ the constructor
\* BufMgr::BufMgr(bufs): every frame Free, the hand on the last frame.
Init ==
    /\ numBufs \in 1..MaxBufs
    /\ bufDescTable = [i \in 0..(numBufs - 1) |-> Clear]
    /\ bufPool = [i \in 0..(numBufs - 1) |-> NewPage(INVALID_NUMBER, 0)]
    /\ hashTable = Empty
    /\ clockHand = numBufs - 1
    /\ disk = Empty
    /\ alive = TRUE
    /\ ret = NoRet
    /\ writes = <<>>
    /\ scen = NoScen
    /\ written = Empty

\* ------------------------------------------------------------- the clock sweep
\* BufMgr::advanceClock
advanceClock(hand) == (hand + 1) % numBufs

\* A sweep of one turn only.
maxBoundOneTurn(n) == n

\* allocBuf: the step budget of one sweep.
maxBoundOf(n) == 2 * n

\* An eviction that leaves the victim's entry in the hash table.
evictKeepsEntry(ht, d) == ht

\* allocBuf: the victim's entry leaves the hash table.
evictRemovesEntry(ht, d) == remove(ht, d.file, d.pageNo)

\* A sweep that gives no second chance.
NoSecondChance(d) == FALSE

\* allocBuf: a valid frame the sweep passes over after clearing its refbit.
SecondChance(d) == d.refbit

\* A second chance that leaves the refbit set.
keepRefbit(d) == d

\* allocBuf: the second chance costs the frame its refbit.
clearRefbit(d) == [d EXCEPT !.refbit = FALSE]

\* A sweep that takes a frame with one pin left.
PinnedTwice(d) == d.pinCnt > 1

\* A sweep that takes any frame with no refbit.
NeverPinned(d) == FALSE

\* allocBuf: a valid frame with no refbit that the sweep may not take.
Pinned(d) == d.pinCnt > 0

\* An eviction that never writes the victim back.
evictNeverWritesBack(d) == FALSE

\* allocBuf: the victim is written to its file before it is dropped.
evictWritesBack(d) == d.dirty

\* allocBuf's while loop, from hand with maxBound steps left; cl is the set of
\* frames whose refbit this sweep has cleared.  stop is "free" (break on an
\* invalid frame), "victim" (the frame at hand is to be evicted) or "bound"
\* (maxBound reached 0).
RECURSIVE Sweep(_, _, _, _)
Sweep(d, hand, maxBound, cl) ==
    IF maxBound = 0
    THEN [desc |-> d, hand |-> hand, stop |-> "bound", cleared |-> cl]
    ELSE IF ~d[hand].valid
    THEN [desc |-> d, hand |-> hand, stop |-> "free", cleared |-> cl]
    ELSE IF SecondChance(d[hand])
    THEN Sweep([d EXCEPT ![hand] = clearRefbit(@)], advanceClock(hand),
               maxBound - 1, cl \cup {hand})
    ELSE IF Pinned(d[hand])
    THEN Sweep(d, advanceClock(hand), maxBound - 1, cl)
    ELSE [desc |-> d, hand |-> hand, stop |-> "victim", cleared |-> cl]

\* BufMgr::allocBuf on descriptors d, hand, hash table ht and files dk.
\* status is "ok", "BufferExceeded" or "HashNotFound" (hashTable->remove threw).
allocBuf(d, hand, ht, dk) ==
    LET s == Sweep(d, advanceClock(hand), maxBoundOf(numBufs), {})
        v == s.desc[s.hand]
        snap == [pinCnt |-> v.pinCnt, refbit |-> v.refbit,
                 firstRef |-> d[s.hand].refbit, cleared |-> s.hand \in s.cleared]
        base == [desc |-> s.desc, hand |-> s.hand, hashTable |-> ht, disk |-> dk,
                 writes |-> <<>>, status |-> "ok", frame |-> s.hand,
                 evicted |-> FALSE, victim |-> NoVictim]
    IN  CASE s.stop = "bound" ->
               [base EXCEPT !.status = "BufferExceeded", !.frame = NoFrame]
          [] s.stop = "free" -> base
          [] s.stop = "victim" ->
               LET dk1 == IF evictWritesBack(v)
                          THEN writePage(dk, v.file, bufPool[s.hand])
                          ELSE dk
                   w == IF evictWritesBack(v)
                        THEN << <<v.file, bufPool[s.hand].no, bufPool[s.hand].data>> >>
                        ELSE <<>>
               IN  IF lookup(ht, v.file, v.pageNo) = NoFrame
                   THEN [base EXCEPT !.disk = dk1, !.writes = w,
                                     !.status = "HashNotFound", !.frame = NoFrame]
                   ELSE [base EXCEPT !.disk = dk1, !.writes = w,
                                     !.hashTable = evictRemovesEntry(ht, v),
                                     !.desc = [s.desc EXCEPT ![s.hand] = Clear],
                                     !.evicted = TRUE, !.victim = snap]

\* ------------------------------------------------------- bookkeeping of a call
Done(r, w) ==
    /\ ret' = r
    /\ writes' = w

Call(op, file, pageNo) == [NoRet EXCEPT !.op = op, !.file = file, !.pageNo = pageNo]

\* A call that threw, or found nothing to do.
Failed(op, outcome) == [NoRet EXCEPT !.op = op, !.outcome = outcome]

\* --------------------------------------------------------------- readPage
\* A repeat fetch that forgets to mark the page as touched.
readPageHitNoRef(d) == [d EXCEPT !.pinCnt = @ + 1]

\* readPage, the page is buffered: one more pin, and the page was touched.
readPageHit(d) == [d EXCEPT !.pinCnt = @ + 1, !.refbit = TRUE]

\* A fetch that fills in the descriptor before it reads the page from the file.
readPageSetsFirst(file, pageNo) ==
    /\ alive
    /\ LET frameNo == lookup(hashTable, file, pageNo)
           a == allocBuf(bufDescTable, clockHand, hashTable, disk)
           r == Call("readPage", file, pageNo)
       IN  IF frameNo # NoFrame
           THEN /\ bufDescTable[frameNo].pinCnt < MaxPin
                /\ bufDescTable' = [bufDescTable EXCEPT ![frameNo] = readPageHit(@)]
                /\ UNCHANGED <<bufPool, hashTable, clockHand, disk>>
                /\ Done([r EXCEPT !.hit = TRUE, !.frame = frameNo], <<>>)
           ELSE /\ clockHand' = a.hand
                /\ disk' = a.disk
                /\ IF a.status # "ok"
                   THEN /\ bufDescTable' = a.desc
                        /\ hashTable' = a.hashTable
                        /\ UNCHANGED bufPool
                        /\ Done(Failed("readPage", a.status), a.writes)
                   ELSE IF ~HasPage(a.disk, file, pageNo)
                   THEN /\ bufDescTable' = [a.desc EXCEPT ![a.frame] = Set(file, pageNo)]
                        /\ hashTable' = a.hashTable
                        /\ UNCHANGED bufPool
                        /\ Done([Failed("readPage", "InvalidPage") EXCEPT
                                    !.evicted = a.evicted, !.victim = a.victim],
                                a.writes)
                   ELSE /\ bufPool' = [bufPool EXCEPT ![a.frame] =
                                          readDisk(a.disk, file, pageNo)]
                        /\ bufDescTable' = [a.desc EXCEPT ![a.frame] = Set(file, pageNo)]
                        /\ hashTable' = insert(a.hashTable, file, pageNo, a.frame)
                        /\ Done([r EXCEPT !.frame = a.frame,
                                          !.evicted = a.evicted, !.victim = a.victim],
                                a.writes)
    /\ UNCHANGED <<numBufs, alive>>

readPage(file, pageNo) ==
    /\ alive
    /\ LET frameNo == lookup(hashTable, file, pageNo)
           a == allocBuf(bufDescTable, clockHand, hashTable, disk)
           r == Call("readPage", file, pageNo)
       IN  IF frameNo # NoFrame
           THEN /\ bufDescTable[frameNo].pinCnt < MaxPin
                /\ bufDescTable' = [bufDescTable EXCEPT ![frameNo] = readPageHit(@)]
                /\ UNCHANGED <<bufPool, hashTable, clockHand, disk>>
                /\ Done([r EXCEPT !.hit = TRUE, !.frame = frameNo], <<>>)
           ELSE /\ clockHand' = a.hand
                /\ disk' = a.disk
                /\ IF a.status # "ok"
                   THEN /\ bufDescTable' = a.desc
                        /\ hashTable' = a.hashTable
                        /\ UNCHANGED bufPool
                        /\ Done(Failed("readPage", a.status), a.writes)
                   ELSE IF ~HasPage(a.disk, file, pageNo)
                   THEN /\ bufDescTable' = a.desc
                        /\ hashTable' = a.hashTable
                        /\ UNCHANGED bufPool
                        /\ Done([Failed("readPage", "InvalidPage") EXCEPT
                                    !.evicted = a.evicted, !.victim = a.victim],
                                a.writes)
                   ELSE /\ bufPool' = [bufPool EXCEPT ![a.frame] =
                                          readDisk(a.disk, file, pageNo)]
                        /\ bufDescTable' = [a.desc EXCEPT ![a.frame] = Set(file, pageNo)]
                        /\ hashTable' = insert(a.hashTable, file, pageNo, a.frame)
                        /\ Done([r EXCEPT !.frame = a.frame,
                                          !.evicted = a.evicted, !.victim = a.victim],
                                a.writes)
    /\ UNCHANGED <<numBufs, alive>>

\* --------------------------------------------------------------- unPinPage
\* A test that lets a release of an unpinned page through.
NotPinnedStrict(d) == d.pinCnt < 0

\* unPinPage: the test that throws PageNotPinnedException.
NotPinned(d) == d.pinCnt <= 0

\* A release that stores the caller's flag in place of the frame's.
unPinAssign(d, dirty) == [d EXCEPT !.pinCnt = @ - 1, !.dirty = dirty]

\* unPinPage on a pinned frame: one pin fewer; dirty is set, never reset.
unPin(d, dirty) ==
    [d EXCEPT !.pinCnt = @ - 1, !.dirty = IF dirty THEN TRUE ELSE @]

\* A release that records the caller's dirty flag before it tests the pin count.
unPinPageMarksFirst(file, pageNo, dirty) ==
    /\ alive
    /\ LET frameNo == lookup(hashTable, file, pageNo)
           r == [Call("unPinPage", file, pageNo) EXCEPT !.dirty = dirty]
       IN  IF frameNo = NoFrame
           THEN /\ UNCHANGED bufDescTable
                /\ Done(Failed("unPinPage", "ok"), <<>>)
           ELSE IF NotPinned(bufDescTable[frameNo])
           THEN /\ bufDescTable' = [bufDescTable EXCEPT ![frameNo].dirty =
                                       IF dirty THEN TRUE ELSE @]
                /\ Done([r EXCEPT !.hit = TRUE, !.frame = frameNo,
                                  !.outcome = "PageNotPinned"], <<>>)
           ELSE /\ bufDescTable' = [bufDescTable EXCEPT ![frameNo] = unPin(@, dirty)]
                /\ Done([r EXCEPT !.hit = TRUE, !.frame = frameNo], <<>>)
    /\ UNCHANGED <<numBufs, bufPool, hashTable, clockHand, disk, alive>>

unPinPage(file, pageNo, dirty) ==
    /\ alive
    /\ LET frameNo == lookup(hashTable, file, pageNo)
           r == [Call("unPinPage", file, pageNo) EXCEPT !.dirty = dirty]
       IN  IF frameNo = NoFrame
           THEN /\ UNCHANGED bufDescTable
                /\ Done(Failed("unPinPage", "ok"), <<>>)
           ELSE IF NotPinned(bufDescTable[frameNo])
           THEN /\ UNCHANGED bufDescTable
                /\ Done([r EXCEPT !.hit = TRUE, !.frame = frameNo,
                                  !.outcome = "PageNotPinned"], <<>>)
           ELSE /\ bufDescTable' = [bufDescTable EXCEPT ![frameNo] = unPin(@, dirty)]
                /\ Done([r EXCEPT !.hit = TRUE, !.frame = frameNo], <<>>)
    /\ UNCHANGED <<numBufs, bufPool, hashTable, clockHand, disk, alive>>

\* --------------------------------------------------------------- flushFile
\* flushFile: an invalid frame whose other fields are not the cleared ones.
BadBuffer(d) ==
    /\ ~d.valid
    /\ (d.pinCnt # 0 \/ d.file # NULL \/ d.pageNo # INVALID_NUMBER \/ d.dirty \/ d.refbit)

\* A flush that takes the frames of every file.
SkipInvalidOnly(d, file) == ~d.valid

\* flushFile: the frame is left alone.
SkipFrame(d, file) == ~d.valid \/ d.file # file

\* A flush that writes every page it drops.
flushAlwaysWritesBack(d) == TRUE

\* A flush that drops dirty pages without writing them.
flushNeverWritesBack(d) == FALSE

\* flushFile: the page is written to its file before it is dropped.
flushWritesBack(d) == d.dirty

\* A flush that drops a page with one pin left.
flushPinnedTwice(d) == d.pinCnt > 1

\* flushFile: the test that throws PagePinnedException.
flushPinned(d) == d.pinCnt > 0

\* flushFile's for loop from frame i on; st carries the descriptors, the hash
\* table, the files, the writes made so far and the status.
RECURSIVE flushFrom(_, _, _)
flushFrom(i, st, file) ==
    IF i >= numBufs THEN st
    ELSE LET curr == st.desc[i]
         IN  IF BadBuffer(curr)
             THEN [st EXCEPT !.status = "BadBuffer", !.frame = i]
             ELSE IF SkipFrame(curr, file)
             THEN flushFrom(i + 1, st, file)
             ELSE IF flushPinned(curr)
             THEN [st EXCEPT !.status = "PagePinned", !.frame = i]
             ELSE LET dk1 == IF flushWritesBack(curr)
                             THEN writePage(st.disk, curr.file, bufPool[i])
                             ELSE st.disk
                      w == IF flushWritesBack(curr)
                           THEN Append(st.writes,
                                       <<curr.file, bufPool[i].no, bufPool[i].data>>)
                           ELSE st.writes
                  IN  IF lookup(st.hashTable, curr.file, curr.pageNo) = NoFrame
                      THEN [st EXCEPT !.disk = dk1, !.writes = w,
                                      !.status = "HashNotFound", !.frame = i]
                      ELSE flushFrom(i + 1,
                               [st EXCEPT !.disk = dk1, !.writes = w,
                                   !.hashTable = remove(@, curr.file, curr.pageNo),
                                   !.desc = [@ EXCEPT ![i] = Clear]],
                               file)

flushFile(file) ==
    /\ alive
    /\ LET st == flushFrom(0, [desc |-> bufDescTable, hashTable |-> hashTable,
                               disk |-> disk, writes |-> <<>>, status |-> "ok",
                               frame |-> NoFrame], file)
       IN  /\ bufDescTable' = st.desc
           /\ hashTable' = st.hashTable
           /\ disk' = st.disk
           /\ Done([Call("flushFile", file, INVALID_NUMBER) EXCEPT
                        !.outcome = st.status, !.frame = st.frame], st.writes)
    /\ UNCHANGED <<numBufs, bufPool, clockHand, alive>>

\* --------------------------------------------------------------- allocPage
\* File::allocatePage(): a page with a number the file does not hold yet, with
\* the content of a fresh page.
allocatePage(dk, file, pageNo) == With(dk, <<file, pageNo>>, 0)

\* An allocation that looks for a frame before it asks the file for a page.
allocPageSweepFirst(file) ==
    /\ alive
    /\ \E pageNo \in PageNos :
         /\ ~HasPage(disk, file, pageNo)
         /\ LET new_pg == NewPage(pageNo, 0)
                a == allocBuf(bufDescTable, clockHand, hashTable, disk)
                r == Call("allocPage", file, pageNo)
            IN  /\ clockHand' = a.hand
                /\ IF a.status # "ok"
                   THEN /\ disk' = a.disk
                        /\ bufDescTable' = a.desc
                        /\ hashTable' = a.hashTable
                        /\ UNCHANGED bufPool
                        /\ Done(Failed("allocPage", a.status), a.writes)
                   ELSE /\ disk' = allocatePage(a.disk, file, pageNo)
                        /\ hashTable' = insert(a.hashTable, file, new_pg.no, a.frame)
                        /\ bufDescTable' = [a.desc EXCEPT ![a.frame] = Set(file, new_pg.no)]
                        /\ bufPool' = [bufPool EXCEPT ![a.frame] = new_pg]
                        /\ Done([r EXCEPT !.frame = a.frame,
                                          !.evicted = a.evicted, !.victim = a.victim],
                                a.writes)
    /\ UNCHANGED <<numBufs, alive>>

allocPage(file) ==
    /\ alive
    /\ \E pageNo \in PageNos :
         /\ ~HasPage(disk, file, pageNo)
         /\ LET new_pg == NewPage(pageNo, 0)
                a == allocBuf(bufDescTable, clockHand, hashTable,
                              allocatePage(disk, file, pageNo))
                r == Call("allocPage", file, pageNo)
            IN  /\ clockHand' = a.hand
                /\ disk' = a.disk
                /\ IF a.status # "ok"
                   THEN /\ bufDescTable' = a.desc
                        /\ hashTable' = a.hashTable
                        /\ UNCHANGED bufPool
                        /\ Done(Failed("allocPage", a.status), a.writes)
                   ELSE /\ hashTable' = insert(a.hashTable, file, new_pg.no, a.frame)
                        /\ bufDescTable' = [a.desc EXCEPT ![a.frame] = Set(file, new_pg.no)]
                        /\ bufPool' = [bufPool EXCEPT ![a.frame] = new_pg]
                        /\ Done([r EXCEPT !.frame = a.frame,
                                          !.evicted = a.evicted, !.victim = a.victim],
                                a.writes)
    /\ UNCHANGED <<numBufs, alive>>

\* --------------------------------------------------------------- disposePage
\* File::deletePage(pageNo)
deletePage(dk, file, pageNo) == Without(dk, <<file, pageNo>>)

\* A disposal that marks the frame invalid and leaves its other fields.
disposePageInvalidates(file, PageNo) ==
    /\ alive
    /\ LET frameId == lookup(hashTable, file, PageNo)
           r == Call("disposePage", file, PageNo)
       IN  IF ~HasPage(disk, file, PageNo)
           THEN /\ UNCHANGED <<bufDescTable, hashTable, disk>>
                /\ Done(Failed("disposePage", "InvalidPage"), <<>>)
           ELSE /\ disk' = deletePage(disk, file, PageNo)
                /\ IF frameId # NoFrame
                   THEN /\ hashTable' = remove(hashTable, file, PageNo)
                        /\ bufDescTable' = [bufDescTable EXCEPT ![frameId].valid = FALSE]
                        /\ Done([r EXCEPT !.hit = TRUE, !.frame = frameId], <<>>)
                   ELSE /\ UNCHANGED <<bufDescTable, hashTable>>
                        /\ Done(r, <<>>)
    /\ UNCHANGED <<numBufs, bufPool, clockHand, alive>>

\* A disposal that refuses a page that is still pinned.
disposePageChecksPin(file, PageNo) ==
    /\ alive
    /\ LET frameId == lookup(hashTable, file, PageNo)
           r == Call("disposePage", file, PageNo)
       IN  IF ~HasPage(disk, file, PageNo)
           THEN /\ UNCHANGED <<bufDescTable, hashTable, disk>>
                /\ Done(Failed("disposePage", "InvalidPage"), <<>>)
           ELSE /\ disk' = deletePage(disk, file, PageNo)
                /\ IF frameId # NoFrame /\ bufDescTable[frameId].pinCnt > 0
                   THEN /\ UNCHANGED <<bufDescTable, hashTable>>
                        /\ Done([r EXCEPT !.hit = TRUE, !.frame = frameId,
                                          !.outcome = "PagePinned"], <<>>)
                   ELSE IF frameId # NoFrame
                   THEN /\ hashTable' = remove(hashTable, file, PageNo)
                        /\ bufDescTable' = [bufDescTable EXCEPT ![frameId] = Clear]
                        /\ Done([r EXCEPT !.hit = TRUE, !.frame = frameId], <<>>)
                   ELSE /\ UNCHANGED <<bufDescTable, hashTable>>
                        /\ Done(r, <<>>)
    /\ UNCHANGED <<numBufs, bufPool, clockHand, alive>>

disposePage(file, PageNo) ==
    /\ alive
    /\ LET frameId == lookup(hashTable, file, PageNo)
           r == Call("disposePage", file, PageNo)
       IN  IF ~HasPage(disk, file, PageNo)
           THEN /\ UNCHANGED <<bufDescTable, hashTable, disk>>
                /\ Done(Failed("disposePage", "InvalidPage"), <<>>)
           ELSE /\ disk' = deletePage(disk, file, PageNo)
                /\ IF frameId # NoFrame
                   THEN /\ hashTable' = remove(hashTable, file, PageNo)
                        /\ bufDescTable' = [bufDescTable EXCEPT ![frameId] = Clear]
                        /\ Done([r EXCEPT !.hit = TRUE, !.frame = frameId], <<>>)
                   ELSE /\ UNCHANGED <<bufDescTable, hashTable>>
                        /\ Done(r, <<>>)
    /\ UNCHANGED <<numBufs, bufPool, clockHand, alive>>

\* ------------------------------------------------------- the caller's handle
\* The holder of a pin writes data into the page through the Page* that
\* readPage or allocPage returned.
modifyPage(frameNo, data) ==
    /\ alive
    /\ bufDescTable[frameNo].valid
    /\ bufDescTable[frameNo].pinCnt > 0
    /\ bufPool[frameNo].data # data
    /\ bufPool' = [bufPool EXCEPT ![frameNo].data = data]
    /\ Done([NoRet EXCEPT !.op = "modifyPage", !.frame = frameNo], <<>>)
    /\ UNCHANGED <<numBufs, bufDescTable, hashTable, clockHand, disk, alive>>

\* --------------------------------------------------------------- the destructor
\* A teardown that writes every frame that holds a page.
destroyWritesValid(d) == d.valid

\* ~BufMgr: the frame is written to its file.
destroyWritesBack(d) == d.dirty

\* ~BufMgr's loop from frame i on: every frame marked dirty is written.
RECURSIVE destroyFrom(_, _, _)
destroyFrom(i, dk, w) ==
    IF i >= numBufs THEN [disk |-> dk, writes |-> w]
    ELSE IF destroyWritesBack(bufDescTable[i])
    THEN destroyFrom(i + 1, writePage(dk, bufDescTable[i].file, bufPool[i]),
                     Append(w, <<bufDescTable[i].file, bufPool[i].no, bufPool[i].data>>))
    ELSE destroyFrom(i + 1, dk, w)

destroy ==
    /\ alive
    /\ LET st == destroyFrom(0, disk, <<>>)
       IN  /\ disk' = st.disk
           /\ Done([NoRet EXCEPT !.op = "destroy"], st.writes)
    /\ alive' = FALSE
    /\ UNCHANGED <<numBufs, bufDescTable, bufPool, hashTable, clockHand>>

\* ------------------------------------------------------------- the histories
\* The scenario: a fetch of page d fails with every frame valid and pinned
\* (phase 1); then page a, and no other, is released (phase 2); then, with a
\* at pin count 0, d is fetched again (phase 3, aFrame the frame a was in).
\* Any other call ends the scenario.  op(file, pageNo) is the call of the step.
ScenStep(op, file, pageNo) ==
    scen' =
        IF /\ op = "readPage" /\ ret'.outcome = "BufferExceeded"
           /\ AllPinned(bufDescTable)
        THEN [NoScen EXCEPT !.phase = 1, !.d = <<file, pageNo>>]
        ELSE IF /\ op = "unPinPage" /\ ret'.outcome = "ok" /\ ret'.hit
                /\ \/ scen.phase = 1
                   \/ scen.phase = 2 /\ scen.a = <<file, pageNo>>
        THEN [scen EXCEPT !.phase = 2, !.a = <<file, pageNo>>]
        ELSE IF /\ op = "readPage" /\ scen.phase = 2 /\ scen.d = <<file, pageNo>>
                /\ bufDescTable[hashTable[scen.a]].pinCnt = 0
        THEN [scen EXCEPT !.phase = 3, !.aFrame = hashTable[scen.a]]
        ELSE NoScen

\* The positions in the write log w of the writes of page k.
WritesOf(k, w) == {j \in 1..Len(w) : <<w[j][1], w[j][2]>> = k}

\* The content of the last write of page k in the write log w.
LastWrite(k, w) ==
    w[CHOOSE j \in WritesOf(k, w) : \A j2 \in WritesOf(k, w) : j2 <= j][3]

\* The content last written back for each page the file holds: that of the
\* call's last writePage for it, if it made one.
WrittenStep ==
    written' = [k \in {x \in DOMAIN disk' :
                         x \in DOMAIN written \/ WritesOf(x, writes') # {}} |->
                  IF WritesOf(k, writes') # {} THEN LastWrite(k, writes')
                  ELSE written[k]]

NoHist == UNCHANGED <<scen, written>>
DataHist == WrittenStep /\ UNCHANGED scen
ClockHist(op, file, pageNo) == ScenStep(op, file, pageNo) /\ UNCHANGED written

\* ------------------------------------------------------------ specifications
\* Spec: every operation of the pool on NumFiles files of at most MaxPage pages;
\* the page contents are left as the files hold them.
Next ==
    \/ \E file \in Files, pageNo \in PageNos : readPage(file, pageNo) /\ NoHist
    \/ \E file \in Files, pageNo \in PageNos, dirty \in BOOLEAN :
          unPinPage(file, pageNo, dirty) /\ NoHist
    \/ \E file \in Files : flushFile(file) /\ NoHist
    \/ \E file \in Files : allocPage(file) /\ NoHist
    \/ \E file \in Files, pageNo \in PageNos : disposePage(file, pageNo) /\ NoHist
    \/ destroy /\ NoHist

Spec == Init /\ [][Next]_vars

\* SpecData: one file, and the holders of pins change the pages' contents.
NextData ==
    \/ \E pageNo \in PageNos : readPage(1, pageNo) /\ DataHist
    \/ \E pageNo \in PageNos, dirty \in BOOLEAN :
          unPinPage(1, pageNo, dirty) /\ DataHist
    \/ flushFile(1) /\ DataHist
    \/ allocPage(1) /\ DataHist
    \/ \E pageNo \in PageNos : disposePage(1, pageNo) /\ DataHist
    \/ \E frameNo \in Frames, data \in Data : modifyPage(frameNo, data) /\ DataHist
    \/ destroy /\ DataHist

SpecData == Init /\ [][NextData]_vars

\* SpecClock: a pool of ClockBufs frames over one file that already holds the
\* pages 1..ClockPages-1; pages are fetched, released and flushed.
InitClock ==
    /\ numBufs = ClockBufs
    /\ bufDescTable = [i \in 0..(numBufs - 1) |-> Clear]
    /\ bufPool = [i \in 0..(numBufs - 1) |-> NewPage(INVALID_NUMBER, 0)]
    /\ hashTable = Empty
    /\ clockHand = numBufs - 1
    /\ disk = [k \in {1} \X (1..(ClockPages - 1)) |-> 0]
    /\ alive = TRUE
    /\ ret = NoRet
    /\ writes = <<>>
    /\ scen = NoScen
    /\ written = Empty

NextClock ==
    \/ \E pageNo \in ClockPageNos :
          readPage(1, pageNo) /\ ClockHist("readPage", 1, pageNo)
    \/ \E pageNo \in ClockPageNos :
          unPinPage(1, pageNo, FALSE) /\ ClockHist("unPinPage", 1, pageNo)
    \/ flushFile(1) /\ ClockHist("flushFile", 1, INVALID_NUMBER)

SpecClock == InitClock /\ [][NextClock]_vars

\* ------------------------------------------------------------------- typing
TypeOK ==
    /\ numBufs \in 1..MaxBufs \cup {ClockBufs}
    /\ clockHand \in Frames
    /\ DOMAIN bufDescTable = Frames
    /\ \A i \in Frames :
         /\ bufDescTable[i].pinCnt \in 0..MaxPin
         /\ bufDescTable[i].file \in Files \cup {NULL}
         /\ bufDescTable[i].pageNo \in PageNos \cup ClockPageNos \cup {INVALID_NUMBER}
         /\ bufPool[i].data \in Data
    /\ DOMAIN hashTable \subseteq Keys
    /\ \A k \in DOMAIN hashTable : hashTable[k] \in Frames
    /\ DOMAIN disk \subseteq Keys
    /\ \A k \in DOMAIN disk : disk[k] \in Data
    /\ ret.outcome \in {"ok", "BufferExceeded", "PageNotPinned", "PagePinned", "InvalidPage"}

\* ------------------------------------------------------------------- claims
KeyOf(d) == <<d.file, d.pageNo>>

RetKey(r) == <<r.file, r.pageNo>>

\* In this step the clock sweep of a fetch or an allocation evicted frame i.
SweepEvicts(i) ==
    /\ ret'.op \in {"readPage", "allocPage"}
    /\ ret'.evicted
    /\ clockHand' = i

\* In this step flushFile dropped the page of frame i.
FlushDrops(i) ==
    /\ ret'.op = "flushFile"
    /\ bufDescTable[i].valid
    /\ bufDescTable[i].file = ret'.file
    /\ ~bufDescTable'[i].valid

\* C1: no frame's pinCnt is ever below 0, and unPinPage of a resident page
\* whose pinCnt is 0 throws PageNotPinnedException and decrements nothing.
C1_PinCntNeverNegative ==
    [][/\ \A i \in Frames : bufDescTable'[i].pinCnt >= 0
       /\ (ret'.op = "unPinPage" /\ ret'.hit /\ bufDescTable[ret'.frame].pinCnt = 0)
            => (ret'.outcome = "PageNotPinned" /\ bufDescTable' = bufDescTable)]_vars

C1_Witness ==
    /\ ret.op = "unPinPage" /\ ret.outcome = "PageNotPinned"
    /\ bufDescTable[ret.frame].valid /\ bufDescTable[ret.frame].pinCnt = 0

\* C2: a readPage miss or an allocPage throws BufferExceededException exactly
\* when every frame was valid and pinned at the start of the call; with a Free
\* or an unpinned frame the sweep finds a frame whatever the refbits and the
\* hand are.
C2_ExceededIffAllPinned ==
    [][(ret'.op \in {"readPage", "allocPage"} /\ ~ret'.hit)
         => (ret'.outcome = "BufferExceeded" <=> AllPinned(bufDescTable))]_vars

C2_Witness ==
    /\ ret.op \in {"readPage", "allocPage"} /\ ret.outcome = "BufferExceeded"
    /\ AllPinned(bufDescTable)

\* C3 as stated: a readPage that fails with BufferExceededException leaves
\* every descriptor as it was, refbit included.
C3_Original ==
    [][(ret'.op = "readPage" /\ ret'.outcome = "BufferExceeded")
         => bufDescTable' = bufDescTable]_vars

\* C3 amended: a readPage that fails with BufferExceededException leaves
\* every frame's valid, file, pageNo, pinCnt and dirty as they were, and
\* leaves every frame's refbit cleared.
C3_OnlyRefbitsCleared ==
    [][(ret'.op = "readPage" /\ ret'.outcome = "BufferExceeded")
         => \A i \in Frames :
              bufDescTable'[i] = [bufDescTable[i] EXCEPT !.refbit = FALSE]]_vars

C3_Witness ==
    /\ ret.op = "readPage" /\ ret.outcome = "BufferExceeded"
    /\ \A i \in Frames : /\ bufDescTable[i].valid /\ bufDescTable[i].pinCnt > 0
                          /\ ~bufDescTable[i].refbit

\* C4: the frame the sweep evicts has pinCnt = 0 and refbit = FALSE when it is
\* selected, and if its refbit was set when the sweep began, the sweep cleared
\* it on an earlier visit.
C4_VictimUnpinnedUnreferenced ==
    ret.evicted =>
        /\ ret.victim.pinCnt = 0
        /\ ~ret.victim.refbit
        /\ (ret.victim.firstRef => ret.victim.cleared)

C4_Witness == ret.evicted /\ ret.victim.firstRef /\ ret.victim.cleared

\* C5: when the sweep or flushFile drops a dirty frame, the content the frame
\* holds then is written to its page in the file; and a readPage miss of a
\* page that was written back returns the content last written back.
C5_RoundTrip ==
    [][/\ \A i \in Frames :
            ((SweepEvicts(i) \/ FlushDrops(i)) /\ bufDescTable[i].dirty)
              => /\ \E j \in 1..Len(writes') :
                      writes'[j] = <<bufDescTable[i].file, bufDescTable[i].pageNo,
                                     bufPool[i].data>>
                 /\ readDisk(disk', bufDescTable[i].file, bufDescTable[i].pageNo)
                      = bufPool[i]
       /\ (/\ ret'.op = "readPage" /\ ~ret'.hit /\ ret'.outcome = "ok"
           /\ RetKey(ret') \in DOMAIN written)
            => bufPool'[ret'.frame] = NewPage(ret'.pageNo, written[RetKey(ret')])]_vars

C5_Witness ==
    /\ ret.op = "readPage" /\ ~ret.hit /\ ret.outcome = "ok"
    /\ RetKey(ret) \in DOMAIN written
    /\ written[RetKey(ret)] > 0
    /\ bufPool[ret.frame].data = written[RetKey(ret)]

\* C6: flushFile(file) with no pinned page of the file completes; after it no
\* hash table entry and no valid frame belongs to the file, every frame of the
\* file that was dirty was written exactly once and nothing else was written,
\* and the frames and hash table entries of other files are as before.
C6_FlushFile ==
    [][(/\ ret'.op = "flushFile"
        /\ \A i \in Frames : (bufDescTable[i].valid /\ bufDescTable[i].file = ret'.file)
                                => bufDescTable[i].pinCnt = 0)
         => /\ ret'.outcome = "ok"
            /\ \A k \in DOMAIN hashTable' : k[1] # ret'.file
            /\ \A i \in Frames : ~(bufDescTable'[i].valid /\ bufDescTable'[i].file = ret'.file)
            /\ \A i \in Frames :
                 (bufDescTable[i].valid /\ bufDescTable[i].file = ret'.file
                  /\ bufDescTable[i].dirty)
                   => /\ Cardinality(WritesOf(KeyOf(bufDescTable[i]), writes')) = 1
                      /\ \E j \in 1..Len(writes') :
                           writes'[j] = <<bufDescTable[i].file, bufDescTable[i].pageNo,
                                          bufPool[i].data>>
            /\ Len(writes') = Cardinality({i \in Frames :
                                  /\ bufDescTable[i].valid
                                  /\ bufDescTable[i].file = ret'.file
                                  /\ bufDescTable[i].dirty})
            /\ \A i \in Frames :
                 (bufDescTable[i].valid /\ bufDescTable[i].file # ret'.file)
                   => bufDescTable'[i] = bufDescTable[i] /\ bufPool'[i] = bufPool[i]
            /\ \A k \in Keys : k[1] # ret'.file
                 => lookup(hashTable', k[1], k[2]) = lookup(hashTable, k[1], k[2])]_vars

C6_Witness ==
    /\ ret.op = "flushFile" /\ ret.outcome = "ok"
    /\ Len(writes) >= 1
    /\ \E i \in Frames : bufDescTable[i].valid /\ bufDescTable[i].dirty

\* C7: a frame's dirty flag goes from TRUE to FALSE only in a step in which the
\* sweep evicts the frame, flushFile drops it or disposePage clears it; no
\* unPinPage and no readPage hit resets it.
C7_DirtySticky ==
    [][\A i \in Frames :
         (bufDescTable[i].dirty /\ ~bufDescTable'[i].dirty)
           => \/ SweepEvicts(i)
              \/ FlushDrops(i)
              \/ ret'.op = "disposePage" /\ ret'.hit /\ ret'.frame = i]_vars

C7_Witness ==
    /\ ret.op = "unPinPage" /\ ret.outcome = "ok" /\ ret.hit /\ ~ret.dirty
    /\ bufDescTable[ret.frame].dirty

\* C8: after a fetch of page d failed with every frame valid and pinned and
\* page a alone was released down to pinCnt = 0, the next fetch of d evicts a, so
\* a is not in the hash table; d being a page of its file, the fetch succeeds
\* and d is in the frame a was in.  (For a number d the file does not hold, the
\* fetch fails with the file's error and the frame a was in is Free.)
C8_ReleasedFrameReused ==
    scen.phase = 3 =>
        /\ scen.a \notin DOMAIN hashTable
        /\ HasPage(disk, scen.d[1], scen.d[2])
             => /\ ret.outcome = "ok"
                /\ ret.frame = scen.aFrame
                /\ bufDescTable[scen.aFrame] = Set(scen.d[1], scen.d[2])
                /\ lookup(hashTable, scen.d[1], scen.d[2]) = scen.aFrame
        /\ ~HasPage(disk, scen.d[1], scen.d[2])
             => /\ ret.outcome = "InvalidPage"
                /\ bufDescTable[scen.aFrame] = Clear

C8_Witness ==
    /\ scen.phase = 3 /\ ret.outcome = "ok" /\ ret.frame = scen.aFrame
    /\ \A i \in Frames : bufDescTable[i].valid /\ bufDescTable[i].pinCnt > 0

\* C9: when the sweep or flushFile drops a frame whose dirty flag is FALSE, the
\* call makes no writePage for that frame's page.
C9_CleanEvictionNoWrite ==
    [][\A i \in Frames :
         ((SweepEvicts(i) \/ FlushDrops(i)) /\ ~bufDescTable[i].dirty)
           => WritesOf(KeyOf(bufDescTable[i]), writes') = {}]_vars

C9_Witness ==
    /\ ret.op \in {"readPage", "allocPage"} /\ ret.outcome = "ok"
    /\ ret.evicted /\ writes = <<>>

\* C10: after a successful readPage(file, pageNo) the returned frame is valid,
\* holds (file, pageNo), has pinCnt >= 1 and refbit set, and the hash table maps
\* (file, pageNo) to it; on a miss pinCnt = 1 and dirty = FALSE, on a hit pinCnt
\* is one more than before.
C10_ReadPageReturnsResidentFrame ==
    [][(ret'.op = "readPage" /\ ret'.outcome = "ok")
         => LET f == ret'.frame
                d == bufDescTable'[f]
            IN  /\ f \in Frames
                /\ d.valid
                /\ KeyOf(d) = RetKey(ret')
                /\ d.pinCnt >= 1
                /\ d.refbit
                /\ lookup(hashTable', ret'.file, ret'.pageNo) = f
                /\ ~ret'.hit => (d.pinCnt = 1 /\ ~d.dirty)
                /\ ret'.hit => d.pinCnt = bufDescTable[f].pinCnt + 1]_vars

C10_Witness ==
    /\ ret.op = "readPage" /\ ret.outcome = "ok" /\ ret.hit
    /\ bufDescTable[ret.frame].pinCnt = 2

\* The pool: the descriptors, the frames' pages, the hash table and the hand.
pool == <<bufDescTable, bufPool, hashTable, clockHand>>

\* C11: unPinPage of a page that is not in the hash table throws nothing and
\* changes neither the pool nor the files; an unPinPage that throws
\* PageNotPinnedException changes neither, the frame's dirty flag included even
\* when dirty = TRUE was passed; and an unPinPage that changes anything found
\* the page in a frame with pinCnt > 0.
C11_UnPinPageNoOp ==
    [][ret'.op = "unPinPage"
         => /\ ~ret'.hit => (ret'.outcome = "ok" /\ UNCHANGED <<pool, disk>>)
            /\ ret'.outcome = "PageNotPinned" => UNCHANGED <<pool, disk>>
            /\ ~(UNCHANGED <<pool, disk>>)
                 => /\ ret'.hit
                    /\ lookup(hashTable, ret'.file, ret'.pageNo) = ret'.frame
                    /\ bufDescTable[ret'.frame].pinCnt > 0]_vars

C11_Witness ==
    /\ ret.op = "unPinPage" /\ ret.outcome = "PageNotPinned" /\ ret.dirty
    /\ bufDescTable[ret.frame].valid /\ ~bufDescTable[ret.frame].dirty

\* C12: the destructor writes every frame whose dirty flag is set to the
\* frame's file, with the frame's content, exactly once, in the step that
\* releases the pool; every such frame holds a page, and there is no write for
\* a Free frame or for a frame whose page is clean.
C12_TeardownWritesDirty ==
    [][ret'.op = "destroy"
         => /\ ~alive'
            /\ \A i \in Frames :
                 bufDescTable[i].dirty
                   => /\ bufDescTable[i].valid
                      /\ Cardinality(WritesOf(KeyOf(bufDescTable[i]), writes')) = 1
                      /\ \E j \in 1..Len(writes') :
                           writes'[j] = <<bufDescTable[i].file, bufDescTable[i].pageNo,
                                          bufPool[i].data>>
            /\ \A i \in Frames :
                 ~bufDescTable[i].dirty
                   => /\ WritesOf(KeyOf(bufDescTable[i]), writes') = {}
                      /\ WritesOf(<<bufDescTable[i].file, bufPool[i].no>>, writes') = {}
            /\ Len(writes') = Cardinality({i \in Frames : bufDescTable[i].dirty})]_vars

C12_Witness ==
    /\ ret.op = "destroy" /\ ~alive /\ Len(writes) = 1
    /\ \E i \in Frames : bufDescTable[i].valid /\ bufDescTable[i].dirty
    /\ \E i \in Frames : bufDescTable[i].valid /\ ~bufDescTable[i].dirty

\* C13: a disposePage whose deletePage fails changes neither the pool nor the
\* files; otherwise the page leaves its file and, if it was in frame f, its
\* entry leaves the hash table and f becomes Free whatever its pinCnt and dirty
\* flag were; no writePage is made, and the hand, the frames' pages, the other
\* frames, the other entries and the other pages of the files stay as they were.
C13_DisposePage ==
    [][ret'.op = "disposePage"
         => /\ ret'.outcome \in {"ok", "InvalidPage"}
            /\ writes' = <<>>
            /\ UNCHANGED <<clockHand, bufPool>>
            /\ ret'.outcome = "InvalidPage" => UNCHANGED <<pool, disk>>
            /\ ret'.outcome = "ok"
                 => LET k == RetKey(ret')
                        f == lookup(hashTable, k[1], k[2])
                    IN  /\ k \in DOMAIN disk
                        /\ disk' = [x \in DOMAIN disk \ {k} |-> disk[x]]
                        /\ hashTable' = [x \in DOMAIN hashTable \ {k} |-> hashTable[x]]
                        /\ \A i \in Frames :
                             bufDescTable'[i] = IF i = f THEN Clear ELSE bufDescTable[i]
                        /\ ret'.hit <=> f # NoFrame]_vars

C13_Witness ==
    /\ ret.op = "disposePage" /\ ret.outcome = "ok" /\ ret.hit
    /\ bufDescTable[ret.frame] = Clear
    /\ RetKey(ret) \notin DOMAIN hashTable /\ RetKey(ret) \notin DOMAIN disk
    /\ bufPool[ret.frame].no = ret.pageNo
    /\ \E i \in Frames : bufDescTable[i].valid /\ bufDescTable[i].pinCnt > 0

\* C14: flushFile(file) throws PagePinnedException whenever a valid frame of
\* the file has pinCnt > 0, and no flushFile changes the descriptor, or removes
\* the hash table entry, of a frame that holds a page with pinCnt > 0.
C14_FlushNeverDropsPinned ==
    [][ret'.op = "flushFile"
         => /\ (\E i \in Frames : /\ bufDescTable[i].valid
                                  /\ bufDescTable[i].file = ret'.file
                                  /\ bufDescTable[i].pinCnt > 0)
                 => ret'.outcome = "PagePinned"
            /\ \A i \in Frames :
                 (bufDescTable[i].valid /\ bufDescTable[i].pinCnt > 0)
                   => /\ bufDescTable'[i] = bufDescTable[i]
                      /\ lookup(hashTable, bufDescTable[i].file, bufDescTable[i].pageNo) = i
                      /\ lookup(hashTable', bufDescTable[i].file, bufDescTable[i].pageNo) = i]_vars

C14_Witness ==
    /\ ret.op = "flushFile" /\ ret.outcome = "PagePinned"
    /\ bufDescTable[ret.frame].valid /\ bufDescTable[ret.frame].file = ret.file
    /\ bufDescTable[ret.frame].pinCnt = 1
    /\ lookup(hashTable, ret.file, bufDescTable[ret.frame].pageNo) = ret.frame

\* The call of this step ran the clock sweep: a readPage miss or an allocPage.
Swept == ret'.op \in {"readPage", "allocPage"} /\ ~ret'.hit

\* This step evicted no page: every entry and every valid frame is kept.
NoEviction ==
    /\ ~ret'.evicted
    /\ \A k \in DOMAIN hashTable : k \in DOMAIN hashTable' /\ hashTable'[k] = hashTable[k]
    /\ \A i \in Frames : bufDescTable[i].valid => bufDescTable'[i].valid

\* The k-th frame after the hand, in the order of the sweep.
FrameAfter(k) == (clockHand + k) % numBufs

\* A frame the sweep takes at first sight: Free, or unpinned with no refbit.
Takeable(d) == ~d.valid \/ (d.pinCnt = 0 /\ ~d.refbit)

\* The first frame after the hand that the sweep takes at first sight.
FirstTakeable ==
    FrameAfter(CHOOSE k \in 1..numBufs :
                   /\ Takeable(bufDescTable[FrameAfter(k)])
                   /\ \A j \in 1..(k - 1) : ~Takeable(bufDescTable[FrameAfter(j)]))

\* C15 as stated: with a Free frame at the start of a readPage miss or an
\* allocPage, the frame obtained is a Free frame and no resident page is evicted.
C15_Original ==
    [][(Swept /\ \E i \in Frames : ~bufDescTable[i].valid)
         => (~bufDescTable[clockHand'].valid /\ NoEviction)]_vars

\* C15 amended: with a Free frame at the start of a readPage miss or an
\* allocPage, the frame obtained is the first frame after the hand, in sweep
\* order, that is Free or is unpinned with refbit clear; if that frame is Free
\* no resident page is evicted, otherwise its page, and no other, is evicted.
C15_FirstTakeableFrame ==
    [][(Swept /\ \E i \in Frames : ~bufDescTable[i].valid)
         => /\ clockHand' = FirstTakeable
            /\ ~bufDescTable[FirstTakeable].valid => NoEviction
            /\ bufDescTable[FirstTakeable].valid
                 => /\ ret'.evicted
                    /\ KeyOf(bufDescTable[FirstTakeable]) \notin DOMAIN hashTable'
                    /\ KeyOf(bufDescTable'[FirstTakeable]) # KeyOf(bufDescTable[FirstTakeable])
                    /\ \A i \in Frames \ {FirstTakeable} :
                         bufDescTable[i].valid
                           => /\ bufDescTable'[i].valid
                              /\ KeyOf(bufDescTable'[i]) = KeyOf(bufDescTable[i])
                              /\ lookup(hashTable', bufDescTable[i].file,
                                        bufDescTable[i].pageNo) = i]_vars

C15_Witness ==
    /\ ret.op \in {"readPage", "allocPage"} /\ ~ret.hit /\ ret.outcome = "ok"
    /\ ~ret.evicted
    /\ \E i \in Frames \ {ret.frame} :
         bufDescTable[i].valid /\ bufDescTable[i].pinCnt = 0 /\ ~bufDescTable[i].refbit

\* C16 as stated: a frame whose valid flag goes from TRUE to FALSE, in a step
\* of any operation, had pinCnt = 0 before the step.
C16_Original ==
    [][\A i \in Frames :
         (bufDescTable[i].valid /\ ~bufDescTable'[i].valid)
           => bufDescTable[i].pinCnt = 0]_vars

\* C16 amended: a frame whose valid flag goes from TRUE to FALSE was evicted by
\* the sweep or dropped by flushFile of its file with pinCnt = 0 before the
\* step, or held the page that disposePage deleted, whatever its pinCnt was.
C16_FreedUnpinnedUnlessDisposed ==
    [][\A i \in Frames :
         (bufDescTable[i].valid /\ ~bufDescTable'[i].valid)
           => \/ /\ bufDescTable[i].pinCnt = 0
                 /\ SweepEvicts(i) \/ FlushDrops(i)
              \/ /\ ret'.op = "disposePage" /\ ret'.hit /\ ret'.frame = i
                 /\ RetKey(ret') = KeyOf(bufDescTable[i])]_vars

C16_Witness ==
    /\ ret.op = "flushFile" /\ ret.outcome = "PagePinned" /\ ret.frame > 0
    /\ bufDescTable[0] = Clear /\ bufPool[0].no # INVALID_NUMBER
    /\ <<ret.file, bufPool[0].no>> \in DOMAIN disk

\* C17: between operations, also after one that threw, every frame with
\* valid = FALSE has pinCnt = 0, no file, pageNo = INVALID_NUMBER, dirty = FALSE
\* and refbit = FALSE; and no flushFile has thrown BadBufferException.
C17_FreeFramesCleared ==
    /\ \A i \in Frames :
         ~bufDescTable[i].valid
           => /\ bufDescTable[i].pinCnt = 0
              /\ bufDescTable[i].file = NULL
              /\ bufDescTable[i].pageNo = INVALID_NUMBER
              /\ ~bufDescTable[i].dirty
              /\ ~bufDescTable[i].refbit
              /\ ~BadBuffer(bufDescTable[i])
    /\ ret.outcome # "BadBuffer"

C17_Witness ==
    /\ ret.op = "flushFile" /\ ret.outcome = "ok"
    /\ \E i \in Frames : ~bufDescTable[i].valid /\ bufPool[i].no # INVALID_NUMBER
    /\ \E i \in Frames : bufDescTable[i].valid /\ bufDescTable[i].pinCnt > 0

\* C18: between operations, also after one that threw (BufferExceeded,
\* PageNotPinned, PagePinned, a failed read or delete of the file), the hash
\* table maps (file, pageNo) to frame i exactly when frame i is valid and holds
\* (file, pageNo); no page is in two frames; and the hand is in 0..numBufs-1.
C18_HashTableAgrees ==
    /\ clockHand \in 0..(numBufs - 1)
    /\ \A k \in DOMAIN hashTable : k \in Keys /\ hashTable[k] \in Frames
    /\ \A k \in Keys : \A i \in Frames :
         (lookup(hashTable, k[1], k[2]) = i)
           <=> (bufDescTable[i].valid /\ KeyOf(bufDescTable[i]) = k)
    /\ \A i \in Frames : bufDescTable[i].valid => KeyOf(bufDescTable[i]) \in Keys
    /\ \A i, j \in Frames :
         (/\ bufDescTable[i].valid /\ bufDescTable[j].valid
          /\ KeyOf(bufDescTable[i]) = KeyOf(bufDescTable[j])) => i = j

C18_Witness ==
    /\ ret.op = "readPage" /\ ret.outcome = "InvalidPage" /\ ret.evicted
    /\ ~bufDescTable[clockHand].valid
    /\ \E i \in Frames : /\ bufDescTable[i].valid
                          /\ lookup(hashTable, bufDescTable[i].file,
                                    bufDescTable[i].pageNo) = i

\* C19: when flushFile(file) throws PagePinnedException, it throws at the
\* lowest-indexed pinned frame f of the file; every valid frame of the file
\* below f has been written (once, with its content) if it was dirty and not
\* written otherwise, has left the hash table and is Free; f and the frames
\* above f, those of the file included, and their entries are as they were.
C19_FlushNotAtomic ==
    [][(ret'.op = "flushFile" /\ ret'.outcome = "PagePinned")
         => LET f == ret'.frame
                OfFile(i) == bufDescTable[i].valid /\ bufDescTable[i].file = ret'.file
            IN  /\ f \in Frames
                /\ OfFile(f) /\ bufDescTable[f].pinCnt > 0
                /\ \A i \in Frames : (i < f /\ OfFile(i)) => bufDescTable[i].pinCnt = 0
                /\ \A i \in Frames :
                     (i < f /\ OfFile(i))
                       => /\ bufDescTable'[i] = Clear
                          /\ KeyOf(bufDescTable[i]) \notin DOMAIN hashTable'
                          /\ bufDescTable[i].dirty
                               => /\ Cardinality(WritesOf(KeyOf(bufDescTable[i]),
                                                          writes')) = 1
                                  /\ \E j \in 1..Len(writes') :
                                       writes'[j] = <<bufDescTable[i].file,
                                                      bufDescTable[i].pageNo,
                                                      bufPool[i].data>>
                                  /\ readDisk(disk', bufDescTable[i].file,
                                              bufDescTable[i].pageNo) = bufPool[i]
                          /\ ~bufDescTable[i].dirty
                               => WritesOf(KeyOf(bufDescTable[i]), writes') = {}
                /\ \A i \in Frames :
                     (i >= f \/ ~OfFile(i))
                       => /\ bufDescTable'[i] = bufDescTable[i]
                          /\ bufDescTable[i].valid
                               => /\ lookup(hashTable', bufDescTable[i].file,
                                            bufDescTable[i].pageNo) = i
                                  /\ WritesOf(KeyOf(bufDescTable[i]), writes') = {}
                /\ UNCHANGED <<bufPool, clockHand>>]_vars

C19_Witness ==
    /\ ret.op = "flushFile" /\ ret.outcome = "PagePinned" /\ ret.frame = 1
    /\ bufDescTable[0] = Clear
    /\ writes = << <<ret.file, bufPool[0].no, bufPool[0].data>> >>
    /\ <<ret.file, bufPool[0].no>> \notin DOMAIN hashTable

\* C20: an allocPage that throws BufferExceededException had every frame valid
\* and pinned; one file holds one page more than before the call, a page that
\* is in no frame and not in the hash table and whose number the call did not
\* return; the other pages, the hash table and every descriptor's valid, file,
\* pageNo, pinCnt and dirty are as they were, and nothing was written.
C20_AllocPageAllocatesFirst ==
    [][(ret'.op = "allocPage" /\ ret'.outcome = "BufferExceeded")
         => /\ AllPinned(bufDescTable)
            /\ \E k \in Keys :
                 /\ k \notin DOMAIN disk
                 /\ DOMAIN disk' = DOMAIN disk \cup {k}
                 /\ k \notin DOMAIN hashTable'
                 /\ \A i \in Frames : KeyOf(bufDescTable'[i]) # k
            /\ Cardinality(DOMAIN disk') = Cardinality(DOMAIN disk) + 1
            /\ \A x \in DOMAIN disk : disk'[x] = disk[x]
            /\ ret'.pageNo = INVALID_NUMBER /\ ret'.frame = NoFrame
            /\ hashTable' = hashTable
            /\ \A i \in Frames :
                 /\ bufDescTable'[i].valid = bufDescTable[i].valid
                 /\ bufDescTable'[i].file = bufDescTable[i].file
                 /\ bufDescTable'[i].pageNo = bufDescTable[i].pageNo
                 /\ bufDescTable'[i].pinCnt = bufDescTable[i].pinCnt
                 /\ bufDescTable'[i].dirty = bufDescTable[i].dirty
            /\ writes' = <<>>
            /\ UNCHANGED bufPool]_vars

C20_Witness ==
    /\ ret.op = "allocPage" /\ ret.outcome = "BufferExceeded"
    /\ AllPinned(bufDescTable)
    /\ Cardinality(DOMAIN disk) = numBufs + 1
    /\ Cardinality(DOMAIN hashTable) = numBufs
    /\ \E k \in DOMAIN disk : k \notin DOMAIN hashTable
====
